---- MODULE Spec2Model ----
(***************************************************************************)
(* RoutesService (the route collection manager): the ordered list of route *)
(* layers, the selected layer, naming, import, split and merge.            *)
(*                                                                         *)
(* A layer is an object with identity: `layers' is the heap (id -> layer), *)
(* `routes' the list of ids, `selectedRoute' an id or NULL.  A name is a   *)
(* sequence of one-character strings, so that the suffix handling of       *)
(* createRouteName is computed on characters.  A point is a position in    *)
(* metres on a line and distanceTo is the distance on that line.           *)
(* Segments are values: a segment object is taken to belong to one route.  *)
(***************************************************************************)
EXTENDS Integers, Sequences, FiniteSets, TLC

VARIABLES routes, selectedRoute, layers, onMap, last, scenario, edits

(* SearchComponent: the two search contexts, the queue of requests that    *)
(* they share and the flag of the ENTER key; inFlight holds the requests   *)
(* whose promise is not settled, lastRequest the latest request of each    *)
(* context, response the response handled by the last step, initTimeout    *)
(* whether the timeout of ngAfterViewInit is still to run.                 *)
VARIABLES fromContext, toContext, requestsQueue, selectFirstSearchResults,
          initTimeout, inFlight, lastRequest, response

routeVars == <<routes, selectedRoute, layers, onMap, last, scenario, edits>>

searchVars == <<fromContext, toContext, requestsQueue, selectFirstSearchResults,
                initTimeout, inFlight, lastRequest, response>>

vars == <<routes, selectedRoute, layers, onMap, last, scenario, edits,
          fromContext, toContext, requestsQueue, selectFirstSearchResults,
          initTimeout, inFlight, lastRequest, response>>

----------------------------------------------------------------------------
(* Bounds of the model *)

MaxRoutes == 3
MaxMarkers == 2
MaxLatLngs == 3
MaxNameLen == 4
MaxEdits == 2
MaxRequests == 3

(* Program constants *)

MERGE_THRESHOLD == 50
NULL == 0

(* resourcesService.route, resourcesService.split: the default route name  *)
(* and the suffix of a split route's name.                                 *)
DefaultRouteName == <<"R">>
SplitSuffix == <<"S">>

(* A payload route whose name is undefined. *)
NoName == <<"undefined">>

AvailableIconTypes == <<"star", "flag">>

----------------------------------------------------------------------------
(* Sequences *)

Range(s) == {s[i] : i \in 1..Len(s)}

Last(s) == s[Len(s)]

Reverse(s) == [i \in 1..Len(s) |-> s[Len(s) + 1 - i]]

SetMax(S) == CHOOSE x \in S : \A y \in S : y <= x

(* Array.prototype.indexOf, 1-based, 0 when absent *)
IndexOf(s, x) ==
    IF \E i \in 1..Len(s) : s[i] = x
    THEN CHOOSE i \in 1..Len(s) : s[i] = x /\ \A j \in 1..(i - 1) : s[j] # x
    ELSE 0

RemoveAt(s, i) == SubSeq(s, 1, i - 1) \o SubSeq(s, i + 1, Len(s))

----------------------------------------------------------------------------
(* Names *)

Digits == <<"0", "1", "2", "3", "4", "5", "6", "7", "8", "9">>

IsDigit(c) == \E i \in 1..10 : Digits[i] = c

RECURSIVE ToDecimal(_)
ToDecimal(n) ==
    IF n < 10 THEN <<Digits[n + 1]>>
    ELSE ToDecimal(n \div 10) \o <<Digits[(n % 10) + 1]>>

(* The replace of createRouteName: its pattern is a greedy any-characters  *)
(* group, a space and one or more digits, replaced by the group.  The      *)
(* group ends at the last space that a digit follows, the digits pattern   *)
(* takes the whole run of digits after it, and what follows the digits is  *)
(* kept (the pattern is not anchored at the end).                          *)
StripNumber(s) ==
    LET P == {p \in 1..(Len(s) - 1) : s[p] = " " /\ IsDigit(s[p + 1])}
    IN  IF P = {} THEN s
        ELSE LET p == SetMax(P)
                 e == SetMax({k \in (p + 1)..Len(s) :
                                \A j \in (p + 1)..k : IsDigit(s[j])})
             IN  SubSeq(s, 1, p - 1) \o SubSeq(s, e + 1, Len(s))

----------------------------------------------------------------------------
(* Geometry *)

distanceTo(a, b) == IF a >= b THEN a - b ELSE b - a

Seg(a, b, t) == [latlngs |-> <<a, b>>, routePoint |-> b, routingType |-> t]

----------------------------------------------------------------------------
(* RouteLayer *)

setHiddenState(l) == [l EXCEPT !.state = "Hidden", !.editMode = "None"]

setReadOnlyState(l) == [l EXCEPT !.state = "ReadOnly", !.editMode = "None"]

setEditRouteState(l) == [l EXCEPT !.state = "Edit", !.editMode = "Route"]

getEditMode(l) == l.editMode

setEditMode(l, editMode) ==
    IF editMode = "None" THEN setReadOnlyState(l)
    ELSE [l EXCEPT !.state = "Edit", !.editMode = editMode]

(* Only on a layer with at least one segment *)
getLastLatLng(l) == Last(Last(l.segments).latlngs)

getFirstLatLng(l) == l.segments[1].latlngs[1]

reverse(l) ==
    [l EXCEPT !.segments =
        Reverse([i \in 1..Len(l.segments) |->
                    [l.segments[i] EXCEPT !.latlngs = Reverse(@)]])]

(* RouteLayerFactory *)
createRouteLayer(route) ==
    [name |-> route.name, isVisible |-> route.isVisible,
     segments |-> route.segments, markers |-> route.markers,
     state |-> "ReadOnly", editMode |-> "None"]

createRouteLayerFromData(routeData) ==
    [name |-> routeData.name, isVisible |-> TRUE,
     segments |-> routeData.segments, markers |-> routeData.markers,
     state |-> "ReadOnly", editMode |-> "None"]

----------------------------------------------------------------------------
(* The manager's state as one record, threaded through a handler:          *)
(* routeChanged counts the routeChanged.next() calls of the handler,       *)
(* dataChanged holds the layers whose raiseDataChanged it called, error    *)
(* says that it threw (what it had done until then stays done), emptyRead  *)
(* that it called getLastLatLng on, or read the first segment of, an empty *)
(* list of segments, orientation what a merge decided about the closest    *)
(* route (made: it got to the decision) and that route's end points after  *)
(* it.                                                                     *)

SetLayer(st, id, l) ==
    [st EXCEPT !.layers = [i \in (DOMAIN st.layers) \cup {id} |->
                              IF i = id THEN l ELSE st.layers[i]]]

Throw(st) == [st EXCEPT !.error = TRUE]

ThrowEmpty(st) == [st EXCEPT !.error = TRUE, !.emptyRead = TRUE]

NoOrientation == [made |-> FALSE, reversed |-> FALSE, first |-> 0, last |-> 0]

NewId(st) ==
    CHOOSE i \in 1..(Cardinality(DOMAIN st.layers) + 1) :
        /\ i \notin DOMAIN st.layers
        /\ \A j \in 1..(i - 1) : j \in DOMAIN st.layers

(* mapService.map.addLayer / removeLayer *)
MapAddLayer(st, id) ==
    [SetLayer(st, id, [st.layers[id] EXCEPT !.isVisible = TRUE])
        EXCEPT !.onMap = @ \cup {id}]

MapRemoveLayer(st, id) ==
    [SetLayer(st, id, [st.layers[id] EXCEPT !.isVisible = FALSE])
        EXCEPT !.onMap = @ \ {id}]

raiseDataChanged(st, id) == [st EXCEPT !.dataChanged = @ \cup {id}]

----------------------------------------------------------------------------
(* RoutesService *)

getRouteByName(st, routeName) ==
    LET I == {i \in 1..Len(st.routes) : st.layers[st.routes[i]].name = routeName}
    IN  IF I = {} THEN NULL
        ELSE st.routes[CHOOSE i \in I : \A j \in I : i <= j]

isNameAvailable(st, name) ==
    getRouteByName(st, name) = NULL /\ name # NoName /\ name # <<>>

selectRoute_NoDemote(st, routeLayer) ==
    [st EXCEPT !.selectedRoute = routeLayer, !.routeChanged = @ + 1]

selectRoute(st, routeLayer) ==
    LET s1 == IF st.selectedRoute # NULL
              THEN SetLayer(st, st.selectedRoute,
                            setReadOnlyState(st.layers[st.selectedRoute]))
              ELSE st
    IN  [s1 EXCEPT !.selectedRoute = routeLayer, !.routeChanged = @ + 1]

addRoute_NoSelect(st, route) ==
    LET routeLayer == NewId(st)
        s1 == [SetLayer(st, routeLayer, createRouteLayer(route))
                  EXCEPT !.routes = Append(@, routeLayer)]
        s2 == MapAddLayer(s1, routeLayer)
    IN  SetLayer(s2, routeLayer, setEditRouteState(s2.layers[routeLayer]))

addRoute(st, route) ==
    LET routeLayer == NewId(st)
        s1 == [SetLayer(st, routeLayer, createRouteLayer(route))
                  EXCEPT !.routes = Append(@, routeLayer)]
        s2 == MapAddLayer(s1, routeLayer)
        s3 == SetLayer(s2, routeLayer, setEditRouteState(s2.layers[routeLayer]))
    IN  selectRoute(s3, routeLayer)

removeRoute_KeepSelection(st, routeName) ==
    LET routeLayer == getRouteByName(st, routeName)
    IN  IF routeLayer = NULL THEN st
        ELSE [MapRemoveLayer(st, routeLayer)
                 EXCEPT !.routes = RemoveAt(@, IndexOf(@, routeLayer))]

removeRoute_AlwaysDeselect(st, routeName) ==
    LET routeLayer == getRouteByName(st, routeName)
    IN  IF routeLayer = NULL THEN selectRoute(st, NULL)
        ELSE LET s1 == IF st.selectedRoute = routeLayer
                       THEN selectRoute(st, NULL) ELSE st
                 s2 == MapRemoveLayer(s1, routeLayer)
             IN  [s2 EXCEPT !.routes = RemoveAt(@, IndexOf(@, routeLayer))]

removeRoute(st, routeName) ==
    LET routeLayer == getRouteByName(st, routeName)
    IN  IF routeLayer = NULL THEN st
        ELSE LET s1 == IF st.selectedRoute = routeLayer
                       THEN selectRoute(st, NULL) ELSE st
                 s2 == MapRemoveLayer(s1, routeLayer)
             IN  [s2 EXCEPT !.routes = RemoveAt(@, IndexOf(@, routeLayer))]

changeRouteState_NoToggle(st, routeLayer) ==
    LET s1 == IF st.layers[routeLayer].isVisible = FALSE
              THEN MapAddLayer(st, routeLayer) ELSE st
    IN  selectRoute(s1, routeLayer)

changeRouteState(st, routeLayer) ==
    IF routeLayer = st.selectedRoute /\ st.layers[routeLayer].isVisible
    THEN MapRemoveLayer(selectRoute(st, NULL), routeLayer)
    ELSE LET s1 == IF st.layers[routeLayer].isVisible = FALSE
                   THEN MapAddLayer(st, routeLayer) ELSE st
         IN  selectRoute(s1, routeLayer)

RECURSIVE ProbeRouteName(_, _, _)
ProbeRouteName(st, routeName, index) ==
    LET availableRouteName == routeName \o <<" ">> \o ToDecimal(index)
    IN  IF \E i \in 1..Len(st.routes) :
              st.layers[st.routes[i]].name = availableRouteName
        THEN ProbeRouteName(st, routeName, index + 1)
        ELSE availableRouteName

createRouteName_NoProbe(st, routeName) ==
    StripNumber(IF routeName = NoName THEN DefaultRouteName ELSE routeName)
        \o <<" ">> \o ToDecimal(1)

createRouteName_Count(st, routeName) ==
    StripNumber(IF routeName = NoName THEN DefaultRouteName ELSE routeName)
        \o <<" ">> \o ToDecimal(Len(st.routes) + 1)

createRouteName(st, routeName) ==
    ProbeRouteName(st,
                   StripNumber(IF routeName = NoName THEN DefaultRouteName
                               ELSE routeName),
                   1)

getData(st) ==
    LET visible == {i \in 1..Len(st.routes) : st.layers[st.routes[i]].isVisible}
        F[k \in 0..Len(st.routes)] ==
            IF k = 0 THEN <<>>
            ELSE IF k \in visible THEN Append(F[k - 1], st.layers[st.routes[k]])
            ELSE F[k - 1]
    IN  F[Len(st.routes)]

(* The marker loop of setData: a type that is no available icon type       *)
(* becomes the first available one.                                        *)
NormalizeMarker(marker) ==
    IF \E i \in 1..Len(AvailableIconTypes) : AvailableIconTypes[i] = marker.type
    THEN marker
    ELSE [marker EXCEPT !.type = AvailableIconTypes[1]]

NormalizeRoute(route) ==
    [route EXCEPT !.markers = [i \in 1..Len(@) |-> NormalizeMarker(@[i])]]

RECURSIVE AddEachRoute_Prepend(_, _, _)
AddEachRoute_Prepend(st, payload, k) ==
    IF k > Len(payload) THEN st
    ELSE LET routeData ==
                 IF isNameAvailable(st, payload[k].name) = FALSE
                 THEN [payload[k] EXCEPT !.name = createRouteName(st, @)]
                 ELSE payload[k]
             routeLayer == NewId(st)
             s1 == [SetLayer(st, routeLayer, createRouteLayerFromData(routeData))
                       EXCEPT !.routes = <<routeLayer>> \o @]
             s2 == MapAddLayer(s1, routeLayer)
         IN  AddEachRoute_Prepend(selectRoute(s2, routeLayer), payload, k + 1)

RECURSIVE AddEachRoute_KeepName(_, _, _)
AddEachRoute_KeepName(st, payload, k) ==
    IF k > Len(payload) THEN st
    ELSE LET routeLayer == NewId(st)
             s1 == [SetLayer(st, routeLayer, createRouteLayerFromData(payload[k]))
                       EXCEPT !.routes = Append(@, routeLayer)]
             s2 == MapAddLayer(s1, routeLayer)
         IN  AddEachRoute_KeepName(selectRoute(s2, routeLayer), payload, k + 1)

(* The loop of addLayersToMap over the payload, from its k-th route on *)
RECURSIVE AddEachRoute(_, _, _)
AddEachRoute(st, payload, k) ==
    IF k > Len(payload) THEN st
    ELSE LET routeData ==
                 IF isNameAvailable(st, payload[k].name) = FALSE
                 THEN [payload[k] EXCEPT !.name = createRouteName(st, @)]
                 ELSE payload[k]
             routeLayer == NewId(st)
             s1 == [SetLayer(st, routeLayer, createRouteLayerFromData(routeData))
                       EXCEPT !.routes = Append(@, routeLayer)]
             s2 == MapAddLayer(s1, routeLayer)
         IN  AddEachRoute(selectRoute(s2, routeLayer), payload, k + 1)

AddMarkersToSelected_Replace(st, markers) ==
    LET s1 == IF st.selectedRoute = NULL
              THEN [st EXCEPT !.selectedRoute = st.routes[1]] ELSE st
        target == s1.layers[s1.selectedRoute]
        editMode == getEditMode(target)
        hidden == setHiddenState(target)
        filled == [hidden EXCEPT !.markers = markers]
    IN  SetLayer(s1, s1.selectedRoute, setEditMode(filled, editMode))

(* The markers-only case of addLayersToMap *)
AddMarkersToSelected(st, markers) ==
    LET s1 == IF st.selectedRoute = NULL
              THEN [st EXCEPT !.selectedRoute = st.routes[1]] ELSE st
        target == s1.layers[s1.selectedRoute]
        editMode == getEditMode(target)
        hidden == setHiddenState(target)
        filled == [hidden EXCEPT !.markers = @ \o markers]
    IN  SetLayer(s1, s1.selectedRoute, setEditMode(filled, editMode))

addLayersToMap(st, payload) ==
    IF Len(payload) = 1 /\ Len(payload[1].segments) = 0 /\ Len(st.routes) > 0
    THEN AddMarkersToSelected(st, payload[1].markers)
    ELSE AddEachRoute(st, payload, 1)

setData(st, payload) ==
    IF Len(payload) = 0 THEN st
    ELSE addLayersToMap(st, [i \in 1..Len(payload) |-> NormalizeRoute(payload[i])])

PrependBridge_FixedType(postFixSegments, startPoint) ==
    <<[latlngs |-> <<startPoint, startPoint>>,
       routePoint |-> startPoint,
       routingType |-> "Hike"]>> \o postFixSegments

PrependBridge_None(postFixSegments, startPoint) == postFixSegments

(* postFixSegments.splice(0, 0, ...) of splitSelectedRouteAt *)
PrependBridge(postFixSegments, startPoint) ==
    <<[latlngs |-> <<startPoint, startPoint>>,
       routePoint |-> startPoint,
       routingType |-> postFixSegments[1].routingType]>> \o postFixSegments

(* segmentIndex is the result of segments.indexOf(segment): 0-based, -1    *)
(* for a segment that is not one of the selected route's.                  *)
splitSelectedRouteAt(st, segmentIndex) ==
    IF st.selectedRoute = NULL THEN Throw(st)
    ELSE
    LET original == st.selectedRoute
        currentRoute == st.layers[original]
        n == Len(currentRoute.segments)
        postFixSegments == SubSeq(currentRoute.segments, segmentIndex + 2, n)
        kept == SubSeq(currentRoute.segments, 1, segmentIndex + 1)
        s1 == SetLayer(st, original,
                       [setHiddenState(currentRoute) EXCEPT !.segments = kept])
    IN  IF kept = <<>> \/ postFixSegments = <<>> THEN ThrowEmpty(s1)
        ELSE
        LET startPoint == getLastLatLng(s1.layers[original])
            routePostFix ==
                [name |-> currentRoute.name \o SplitSuffix,
                 segments |-> PrependBridge(postFixSegments, startPoint),
                 markers |-> <<>>]
            s2 == setData(s1, <<routePostFix>>)
            s3 == SetLayer(s2, s2.selectedRoute,
                           setEditRouteState(s2.layers[s2.selectedRoute]))
        IN  raiseDataChanged(s3, s3.selectedRoute)

getClosestRoute_AnyRoute(st, isFirst) ==
    IF st.selectedRoute = NULL
    THEN [threw |-> TRUE, emptyRead |-> FALSE, route |-> NULL]
    ELSE IF st.layers[st.selectedRoute].segments = <<>>
    THEN [threw |-> TRUE, emptyRead |-> TRUE, route |-> NULL]
    ELSE
    LET selected == st.layers[st.selectedRoute]
        latLngToCheck == IF isFirst THEN getFirstLatLng(selected)
                         ELSE getLastLatLng(selected)
        near == {i \in 1..Len(st.routes) :
                    /\ Len(st.layers[st.routes[i]].segments) > 0
                    /\ \/ distanceTo(getLastLatLng(st.layers[st.routes[i]]),
                                     latLngToCheck) < MERGE_THRESHOLD
                       \/ distanceTo(getFirstLatLng(st.layers[st.routes[i]]),
                                     latLngToCheck) < MERGE_THRESHOLD}
    IN  [threw |-> FALSE, emptyRead |-> FALSE,
         route |-> IF near = {} THEN NULL
                   ELSE st.routes[CHOOSE i \in near : \A j \in near : i <= j]]

getClosestRoute_Nearest(st, isFirst) ==
    IF st.selectedRoute = NULL
    THEN [threw |-> TRUE, emptyRead |-> FALSE, route |-> NULL]
    ELSE IF st.layers[st.selectedRoute].segments = <<>>
    THEN [threw |-> TRUE, emptyRead |-> TRUE, route |-> NULL]
    ELSE
    LET selected == st.layers[st.selectedRoute]
        latLngToCheck == IF isFirst THEN getFirstLatLng(selected)
                         ELSE getLastLatLng(selected)
        gap(i) ==
            LET a == distanceTo(getLastLatLng(st.layers[st.routes[i]]), latLngToCheck)
                b == distanceTo(getFirstLatLng(st.layers[st.routes[i]]), latLngToCheck)
            IN  IF a <= b THEN a ELSE b
        near == {i \in 1..Len(st.routes) :
                    /\ st.routes[i] # st.selectedRoute
                    /\ Len(st.layers[st.routes[i]].segments) > 0
                    /\ gap(i) < MERGE_THRESHOLD}
        nearest == {i \in near : \A j \in near : gap(i) <= gap(j)}
    IN  [threw |-> FALSE, emptyRead |-> FALSE,
         route |-> IF near = {} THEN NULL
                   ELSE st.routes[CHOOSE i \in nearest : \A j \in nearest : i <= j]]

(* [threw, emptyRead, route]: route is the layer found, or NULL *)
getClosestRoute(st, isFirst) ==
    IF st.selectedRoute = NULL
    THEN [threw |-> TRUE, emptyRead |-> FALSE, route |-> NULL]
    ELSE IF st.layers[st.selectedRoute].segments = <<>>
    THEN [threw |-> TRUE, emptyRead |-> TRUE, route |-> NULL]
    ELSE
    LET selected == st.layers[st.selectedRoute]
        latLngToCheck == IF isFirst THEN getFirstLatLng(selected)
                         ELSE getLastLatLng(selected)
        near == {i \in 1..Len(st.routes) :
                    /\ st.routes[i] # st.selectedRoute
                    /\ Len(st.layers[st.routes[i]].segments) > 0
                    /\ \/ distanceTo(getLastLatLng(st.layers[st.routes[i]]),
                                     latLngToCheck) < MERGE_THRESHOLD
                       \/ distanceTo(getFirstLatLng(st.layers[st.routes[i]]),
                                     latLngToCheck) < MERGE_THRESHOLD}
    IN  [threw |-> FALSE, emptyRead |-> FALSE,
         route |-> IF near = {} THEN NULL
                   ELSE st.routes[CHOOSE i \in near : \A j \in near : i <= j]]

ConcatMarkers_Front(selected, markersToAdd) ==
    [selected EXCEPT !.markers = markersToAdd \o @]

(* The markers of mergeSelectedRouteToClosest *)
ConcatMarkers(selected, markersToAdd) ==
    [selected EXCEPT !.markers = @ \o markersToAdd]

ShouldReverse_Never(sameSide, latLngToCheck) == FALSE

(* The test of lines 197 and 204: sameSide is the closest route's first    *)
(* point in a front merge, its last point in a back merge.                 *)
ShouldReverse(sameSide, latLngToCheck) ==
    distanceTo(sameSide, latLngToCheck) < MERGE_THRESHOLD

RecordOrientation(st, closestRoute, turn) ==
    [st EXCEPT !.orientation =
        [made |-> TRUE, reversed |-> turn,
         first |-> getFirstLatLng(closestRoute),
         last |-> getLastLatLng(closestRoute)]]

(* The front branch of mergeSelectedRouteToClosest, after the markers *)
MergeFirst(st, closestId, latLngToCheck) ==
    LET closest0 == st.layers[closestId]
        turn == ShouldReverse(getFirstLatLng(closest0), latLngToCheck)
        closestRoute == IF turn THEN reverse(closest0) ELSE closest0
        s1 == RecordOrientation(SetLayer(st, closestId, closestRoute),
                                closestRoute, turn)
        selected == s1.layers[s1.selectedRoute]
        rest == Tail(selected.segments)
        s2 == SetLayer(s1, s1.selectedRoute, [selected EXCEPT !.segments = rest])
    IN  IF rest = <<>> THEN ThrowEmpty(s2)
        ELSE LET first == [rest[1] EXCEPT
                              !.latlngs = <<getLastLatLng(closestRoute)>> \o @]
             IN  SetLayer(s2, s2.selectedRoute,
                          [selected EXCEPT !.segments =
                              closestRoute.segments \o <<first>> \o Tail(rest)])

(* The back branch of mergeSelectedRouteToClosest, after the markers *)
MergeLast(st, closestId, latLngToCheck) ==
    LET closest0 == st.layers[closestId]
        turn == ShouldReverse(getLastLatLng(closest0), latLngToCheck)
        reversed == IF turn THEN reverse(closest0) ELSE closest0
        rest == Tail(reversed.segments)
        s1 == RecordOrientation(
                  SetLayer(st, closestId, [reversed EXCEPT !.segments = rest]),
                  reversed, turn)
        selected == s1.layers[s1.selectedRoute]
    IN  IF rest = <<>> THEN ThrowEmpty(s1)
        ELSE LET first == [rest[1] EXCEPT
                              !.latlngs = <<getLastLatLng(selected)>> \o @]
                 joined == <<first>> \o Tail(rest)
                 s2 == SetLayer(s1, closestId,
                                [reversed EXCEPT !.segments = joined])
             IN  SetLayer(s2, s2.selectedRoute,
                          [selected EXCEPT !.segments = @ \o joined])

mergeSelectedRouteToClosest_Guarded(st, isFirst) ==
    LET found == getClosestRoute(st, isFirst)
    IN  IF found.threw
        THEN IF found.emptyRead THEN ThrowEmpty(st) ELSE Throw(st)
        ELSE
        LET s1 == SetLayer(st, st.selectedRoute,
                           setHiddenState(st.layers[st.selectedRoute]))
        IN  IF found.route = NULL THEN st
            ELSE
            LET s2 == removeRoute(s1, s1.layers[found.route].name)
            IN  IF s2.selectedRoute = NULL THEN Throw(s2)
                ELSE
                LET markersToAdd == s2.layers[found.route].markers
                    s3 == SetLayer(s2, s2.selectedRoute,
                                   ConcatMarkers(s2.layers[s2.selectedRoute],
                                                 markersToAdd))
                    latLngToCheck ==
                        IF isFirst THEN getFirstLatLng(s3.layers[s3.selectedRoute])
                        ELSE getLastLatLng(s3.layers[s3.selectedRoute])
                    s4 == IF isFirst THEN MergeFirst(s3, found.route, latLngToCheck)
                          ELSE MergeLast(s3, found.route, latLngToCheck)
                IN  IF s4.error THEN s4
                    ELSE raiseDataChanged(
                             SetLayer(s4, s4.selectedRoute,
                                      setEditRouteState(s4.layers[s4.selectedRoute])),
                             s4.selectedRoute)

mergeSelectedRouteToClosest(st, isFirst) ==
    LET found == getClosestRoute(st, isFirst)
    IN  IF found.threw
        THEN IF found.emptyRead THEN ThrowEmpty(st) ELSE Throw(st)
        ELSE
        LET s1 == SetLayer(st, st.selectedRoute,
                           setHiddenState(st.layers[st.selectedRoute]))
        IN  IF found.route = NULL THEN Throw(s1)
            ELSE
            LET s2 == removeRoute(s1, s1.layers[found.route].name)
            IN  IF s2.selectedRoute = NULL THEN Throw(s2)
                ELSE
                LET markersToAdd == s2.layers[found.route].markers
                    s3 == SetLayer(s2, s2.selectedRoute,
                                   ConcatMarkers(s2.layers[s2.selectedRoute],
                                                 markersToAdd))
                    latLngToCheck ==
                        IF isFirst THEN getFirstLatLng(s3.layers[s3.selectedRoute])
                        ELSE getLastLatLng(s3.layers[s3.selectedRoute])
                    s4 == IF isFirst THEN MergeFirst(s3, found.route, latLngToCheck)
                          ELSE MergeLast(s3, found.route, latLngToCheck)
                IN  IF s4.error THEN s4
                    ELSE raiseDataChanged(
                             SetLayer(s4, s4.selectedRoute,
                                      setEditRouteState(s4.layers[s4.selectedRoute])),
                             s4.selectedRoute)

----------------------------------------------------------------------------
(* Inputs *)

M1 == [latlng |-> 0, title |-> "a", type |-> "flag"]
M2 == [latlng |-> 50, title |-> "b", type |-> "bogus"]

ShapeA == <<Seg(0, 20, "Hike")>>
ShapeB == <<Seg(50, 80, "Bike")>>
ShapeC == <<Seg(20, 20, "Hike"), Seg(20, 50, "Bike"), Seg(50, 80, "Hike")>>

ShapeD == <<Seg(20, 20, "Hike"), Seg(20, 50, "Bike")>>

(* What the callers pass in, by scenario.  The scenario is chosen at the   *)
(* start and never changes: the reachable states are the union of the      *)
(* scenarios' states.  "names" varies the names over routes without        *)
(* geometry, "crowd" fills the collection with routes of one name near     *)
(* each other, "geometry" splits and merges routes of several segments,    *)
(* "markers" imports and merges markers.                                   *)
Scenarios == {"names", "crowd", "geometry", "markers"}

AddRouteInputs(sc) ==
    CASE sc = "names" ->
           [name : {<<"R", " ", "1">>, <<"R", " ", "2">>}, isVisible : BOOLEAN,
            segments : {<<>>}, markers : {<<>>}]
      [] sc = "crowd" ->
           [name : {<<"R", " ", "1">>}, isVisible : {TRUE},
            segments : {ShapeA, ShapeB, ShapeD}, markers : {<<>>}]
      [] sc = "geometry" ->
           [name : {<<"R", " ", "1">>}, isVisible : {TRUE},
            segments : {<<>>, ShapeA, ShapeB, ShapeC}, markers : {<<>>}]
      [] sc = "markers" ->
           [name : {<<"R", " ", "1">>}, isVisible : {TRUE},
            segments : {ShapeA, ShapeD}, markers : {<<>>, <<M1>>}]

SetDataRoutes(sc) ==
    CASE sc = "names" ->
           [name : {NoName, <<>>, <<"R">>}, segments : {ShapeB}, markers : {<<>>}]
           \cup {[name |-> NoName, segments |-> <<>>, markers |-> <<>>]}
      [] sc = "crowd" -> {}
      [] sc = "geometry" ->
           [name : {<<"R">>}, segments : {ShapeB}, markers : {<<>>}]
      [] sc = "markers" ->
           [name : {NoName}, segments : {<<>>}, markers : {<<M2>>, <<M1, M2>>}]

PairRoutes(sc) ==
    CASE sc = "names" ->
           [name : {NoName, <<"R">>}, segments : {ShapeB}, markers : {<<>>}]
      [] OTHER -> {}

Payloads(sc) ==
    {<<>>} \cup {<<r>> : r \in SetDataRoutes(sc)}
           \cup {<<r, q>> : r, q \in PairRoutes(sc)}

(* Only "crowd" fills the collection; "crowd" and "markers" split or merge *)
(* once less than the others.                                              *)
RouteLimit(sc) == IF sc = "crowd" THEN MaxRoutes ELSE MaxRoutes - 1

EditLimit(sc) == IF sc \in {"crowd", "markers"} THEN MaxEdits - 1 ELSE MaxEdits

RemoveNames(st) ==
    {st.layers[st.routes[i]].name : i \in 1..Len(st.routes)} \cup {<<"X">>}

----------------------------------------------------------------------------
(* The state machine *)

Current ==
    [routes |-> routes, selectedRoute |-> selectedRoute, layers |-> layers,
     onMap |-> onMap, routeChanged |-> 0, dataChanged |-> {}, error |-> FALSE,
     emptyRead |-> FALSE, orientation |-> NoOrientation]

(* The value of last.absorbed when the call found no route to absorb *)
NoLayer ==
    [name |-> <<>>, isVisible |-> FALSE, segments |-> <<>>, markers |-> <<>>,
     state |-> "Hidden", editMode |-> "None"]

NoCall ==
    [op |-> "none", name |-> <<>>, flag |-> FALSE, index |-> 0, layer |-> NULL,
     payload |-> <<>>, closest |-> NULL, absorbed |-> NoLayer, origin |-> <<>>,
     error |-> FALSE, emptyRead |-> FALSE, orientation |-> NoOrientation,
     routeChanged |-> 0, dataChanged |-> {}]

Live(st) == Range(st.routes) \cup ({st.selectedRoute} \ {NULL})

TotalMarkers(st) ==
    LET F[k \in 0..Len(st.routes)] ==
            IF k = 0 THEN 0 ELSE F[k - 1] + Len(st.layers[st.routes[k]].markers)
    IN  F[Len(st.routes)]

WithinBounds(st) ==
    /\ Len(st.routes) <= RouteLimit(scenario)
    /\ TotalMarkers(st) <= MaxMarkers
    /\ \A id \in Live(st) :
          /\ Len(st.layers[id].name) <= MaxNameLen + 2
          /\ \A i \in 1..Len(st.layers[id].segments) :
                Len(st.layers[id].segments[i].latlngs) <= MaxLatLngs

(* The handler has run from Current to st.  Layers that nothing refers to  *)
(* any more leave the heap, and the ids, which are addresses, are renamed  *)
(* so that the k-th route of the list has id k (a selected layer that is   *)
(* not in the list gets the next id).  last.origin keeps the list with the *)
(* ids the layers had during the call: origin[k] is the id, before the     *)
(* call, of the layer that is now k, or an id that no layer had before the *)
(* call for a layer the call created.                                      *)
NewIdOf(st, id) ==
    IF id = NULL THEN NULL
    ELSE IF id \in Range(st.routes) THEN IndexOf(st.routes, id)
    ELSE Len(st.routes) + 1

Finish(st, call) ==
    /\ routes' = [k \in 1..Len(st.routes) |-> k]
    /\ selectedRoute' = NewIdOf(st, st.selectedRoute)
    /\ layers' = [k \in {NewIdOf(st, id) : id \in Live(st)} |->
                     st.layers[CHOOSE id \in Live(st) : NewIdOf(st, id) = k]]
    /\ onMap' = {NewIdOf(st, id) : id \in st.onMap \cap Live(st)}
    /\ UNCHANGED searchVars
    /\ scenario' = scenario
    /\ edits' = IF call.op \in {"splitSelectedRouteAt", "mergeSelectedRouteToClosest"}
                THEN edits + 1 ELSE edits
    /\ last' = [call EXCEPT !.origin = st.routes,
                            !.error = st.error,
                            !.emptyRead = st.emptyRead,
                            !.orientation = st.orientation,
                            !.routeChanged = st.routeChanged,
                            !.dataChanged = st.dataChanged]

(* SearchComponent's constructor, for hashService.searchTerm = hashTerm *)
NoResponse ==
    [id |-> 0, context |-> "none", searchTerm |-> <<>>, results |-> <<>>,
     ok |-> FALSE, applied |-> FALSE]

SearchConstructed(hashTerm) ==
    /\ requestsQueue = <<>>
    /\ selectFirstSearchResults = (hashTerm # NoName)
    /\ fromContext = [searchTerm |-> IF hashTerm = NoName THEN <<>> ELSE hashTerm,
                      searchResults |-> <<>>, selectedSearchResults |-> NULL]
    /\ toContext = [searchTerm |-> <<>>, searchResults |-> <<>>,
                    selectedSearchResults |-> NULL]
    /\ initTimeout = (hashTerm # NoName)
    /\ inFlight = {}
    /\ lastRequest = [c \in {"from", "to"} |-> 0]
    /\ response = NoResponse

RoutesConstructed ==
    /\ routes = <<>>
    /\ selectedRoute = NULL
    /\ layers = <<>>
    /\ onMap = {}
    /\ edits = 0
    /\ last = NoCall

Init ==
    /\ SearchConstructed(NoName)
    /\ routes = <<>>
    /\ selectedRoute = NULL
    /\ layers = <<>>
    /\ onMap = {}
    /\ scenario \in Scenarios
    /\ edits = 0
    /\ last = [op |-> "none", name |-> <<>>, flag |-> FALSE, index |-> 0,
               layer |-> NULL, payload |-> <<>>, closest |-> NULL,
               absorbed |-> NoLayer, origin |-> <<>>,
               error |-> FALSE, emptyRead |-> FALSE,
               orientation |-> NoOrientation, routeChanged |-> 0,
               dataChanged |-> {}]

AddRoute ==
    \E route \in AddRouteInputs(scenario) :
        LET st == addRoute(Current, route)
        IN  /\ WithinBounds(st)
            /\ Finish(st, [NoCall EXCEPT !.op = "addRoute", !.name = route.name,
                                         !.payload = <<route>>])

RemoveRoute ==
    \E routeName \in RemoveNames(Current) :
        Finish(removeRoute(Current, routeName),
               [NoCall EXCEPT !.op = "removeRoute", !.name = routeName])

ChangeRouteState ==
    \E routeLayer \in Range(routes) :
        Finish(changeRouteState(Current, routeLayer),
               [NoCall EXCEPT !.op = "changeRouteState", !.layer = routeLayer])

SetData ==
    \E payload \in Payloads(scenario) :
        LET st == setData(Current, payload)
        IN  /\ WithinBounds(st)
            /\ Finish(st, [NoCall EXCEPT !.op = "setData", !.payload = payload])

SplitSelectedRouteAt ==
    \E segmentIndex \in -1..(IF selectedRoute = NULL THEN -1
                             ELSE Len(layers[selectedRoute].segments) - 1) :
        LET st == splitSelectedRouteAt(Current, segmentIndex)
        IN  /\ edits < EditLimit(scenario)
            /\ WithinBounds(st)
            /\ selectedRoute # NULL =>
                  Len(layers[selectedRoute].name) + Len(SplitSuffix) <= MaxNameLen
            /\ Finish(st, [NoCall EXCEPT !.op = "splitSelectedRouteAt",
                                         !.index = segmentIndex])

MergeSelectedRouteToClosest ==
    \E isFirst \in BOOLEAN :
        LET st == mergeSelectedRouteToClosest(Current, isFirst)
            closest == getClosestRoute(Current, isFirst).route
        IN  /\ edits < EditLimit(scenario)
            /\ WithinBounds(st)
            /\ Finish(st, [NoCall EXCEPT !.op = "mergeSelectedRouteToClosest",
                                         !.flag = isFirst,
                                         !.closest = closest,
                                         !.absorbed = IF closest = NULL THEN NoLayer
                                                      ELSE layers[closest]])

Next ==
    \/ AddRoute
    \/ RemoveRoute
    \/ ChangeRouteState
    \/ SetData
    \/ SplitSelectedRouteAt
    \/ MergeSelectedRouteToClosest

Spec == Init /\ [][Next]_vars

----------------------------------------------------------------------------
(* SearchComponent.  A search term is a sequence of characters, a list of  *)
(* results the list of the ids of the requests it answers (one result, or  *)
(* none).  The map, the toasts and the visibility of the panel are left    *)
(* out: nothing in the search reads them.                                  *)

Contexts == {"from", "to"}

SearchTerms == {<<"a", "b">>, <<"a", "b", "c">>, <<"x", "y", "z">>}

Context(c) == IF c = "from" THEN fromContext ELSE toContext

SetContext(c, value) ==
    /\ fromContext' = IF c = "from" THEN value ELSE fromContext
    /\ toContext' = IF c = "to" THEN value ELSE toContext

NextRequestId == SetMax({lastRequest[c] : c \in Contexts}) + 1

(* internalSearch up to the call of getResults; context is the value of    *)
(* the context c when it is called.                                        *)
internalSearch(c, context) ==
    /\ NextRequestId <= MaxRequests
    /\ SetContext(c, context)
    /\ requestsQueue' = Append(requestsQueue, context.searchTerm)
    /\ inFlight' = inFlight \cup {[id |-> NextRequestId, context |-> c,
                                     searchTerm |-> context.searchTerm]}
    /\ lastRequest' = [lastRequest EXCEPT ![c] = NextRequestId]

search(c, context) ==
    IF Len(context.searchTerm) <= 2
    THEN /\ SetContext(c, [context EXCEPT !.searchResults = <<>>])
         /\ UNCHANGED <<requestsQueue, inFlight, lastRequest>>
    ELSE internalSearch(c, context)

selectResults(context, searchResult) ==
    [context EXCEPT !.selectedSearchResults = searchResult]

(* valueChanges emits a string: the do() of configureInputFormControl *)
InputTyped ==
    /\ selectFirstSearchResults' = FALSE
    /\ response' = NoResponse
    /\ UNCHANGED <<fromContext, toContext, requestsQueue, initTimeout,
                   inFlight, lastRequest>>
    /\ UNCHANGED routeVars

(* valueChanges emits a result that the user picked *)
ResultPicked ==
    \E c \in Contexts :
        \E i \in 1..Len(Context(c).searchResults) :
            /\ SetContext(c, selectResults(Context(c), Context(c).searchResults[i]))
            /\ response' = NoResponse
            /\ UNCHANGED <<requestsQueue, selectFirstSearchResults, initTimeout,
                           inFlight, lastRequest>>
            /\ UNCHANGED routeVars

(* The subscriber of configureInputFormControl, after the debounce *)
TermChanged ==
    \E c \in Contexts, x \in SearchTerms :
        /\ search(c, [Context(c) EXCEPT !.searchTerm = x,
                                        !.selectedSearchResults = NULL])
        /\ response' = NoResponse
        /\ UNCHANGED <<selectFirstSearchResults, initTimeout>>
        /\ UNCHANGED routeVars

(* The callback of the timeout that ngAfterViewInit sets when isVisible *)
NgAfterViewInit ==
    /\ initTimeout
    /\ initTimeout' = FALSE
    /\ search("from", fromContext)
    /\ response' = NoResponse
    /\ UNCHANGED selectFirstSearchResults
    /\ UNCHANGED routeVars

(* handleEnterKeydown, when it gets past its three early returns *)
EnterKeydown ==
    /\ IF /\ fromContext.selectedSearchResults = NULL
          /\ Len(fromContext.searchResults) > 0
       THEN /\ SetContext("from", selectResults(fromContext,
                                                fromContext.searchResults[1]))
            /\ UNCHANGED selectFirstSearchResults
       ELSE /\ selectFirstSearchResults' = TRUE
            /\ UNCHANGED <<fromContext, toContext>>
    /\ response' = NoResponse
    /\ UNCHANGED <<requestsQueue, initTimeout, inFlight, lastRequest>>
    /\ UNCHANGED routeVars

(* The index in requestsQueue, 1-based, of the item that _.find returns    *)
(* for searchTerm; 0 when there is none.                                   *)
FindQueueItem(searchTerm) ==
    LET I == {i \in 1..Len(requestsQueue) : requestsQueue[i] = searchTerm}
    IN  IF I = {} THEN 0 ELSE CHOOSE i \in I : \A j \in I : i <= j

WithoutTerm(queue, searchTerm) ==
    LET keep(t) == t # searchTerm
    IN  SelectSeq(queue, keep)

(* The then-callback of getResults for the request r *)
ResponseArrives ==
    \E r \in inFlight : \E results \in {<<>>, <<r.id>>} :
        LET queueItem == FindQueueItem(r.searchTerm)
            context == Context(r.context)
            answer == [id |-> r.id, context |-> r.context,
                       searchTerm |-> r.searchTerm, results |-> results,
                       ok |-> TRUE, applied |-> FALSE]
        IN  /\ inFlight' = inFlight \ {r}
            /\ IF queueItem = 0 \/ queueItem # Len(requestsQueue)
               THEN /\ requestsQueue' = IF requestsQueue = <<>> THEN <<>>
                                        ELSE <<Last(requestsQueue)>>
                    /\ response' = answer
                    /\ UNCHANGED <<fromContext, toContext, selectFirstSearchResults>>
               ELSE IF context.searchTerm # r.searchTerm
               THEN /\ requestsQueue' = WithoutTerm(requestsQueue, r.searchTerm)
                    /\ response' = answer
                    /\ UNCHANGED <<fromContext, toContext, selectFirstSearchResults>>
               ELSE LET found == [context EXCEPT !.searchResults = results]
                    IN  /\ requestsQueue' = <<>>
                        /\ SetContext(r.context,
                               IF selectFirstSearchResults /\ Len(results) > 0
                               THEN selectResults(found, results[1])
                               ELSE found)
                        /\ selectFirstSearchResults' = FALSE
                        /\ response' = [answer EXCEPT !.applied = TRUE]
            /\ UNCHANGED <<initTimeout, lastRequest>>
            /\ UNCHANGED routeVars

(* The rejection callback of getResults: a toast *)
ResponseFails ==
    \E r \in inFlight :
        /\ inFlight' = inFlight \ {r}
        /\ response' = [id |-> r.id, context |-> r.context,
                        searchTerm |-> r.searchTerm, results |-> <<>>,
                        ok |-> FALSE, applied |-> FALSE]
        /\ UNCHANGED <<fromContext, toContext, requestsQueue,
                       selectFirstSearchResults, initTimeout, lastRequest>>
        /\ UNCHANGED routeVars

SearchInit ==
    /\ RoutesConstructed
    /\ scenario = "names"
    /\ \E hashTerm \in {NoName, <<"a", "b", "c">>} : SearchConstructed(hashTerm)

SearchNext ==
    \/ InputTyped
    \/ ResultPicked
    \/ TermChanged
    \/ NgAfterViewInit
    \/ EnterKeydown
    \/ ResponseArrives
    \/ ResponseFails

SearchSpec == SearchInit /\ [][SearchNext]_vars

----------------------------------------------------------------------------
(* Vocabulary of the properties.  In a step, the unprimed variables are    *)
(* the state before the call that last' describes and the primed ones the  *)
(* state after it; before the call the k-th route has id k.                *)

Names == {layers[routes[k]].name : k \in 1..Len(routes)}

Completed(op) == last.op = op /\ ~last.error

CompletedStep(op) == last'.op = op /\ ~last'.error

(* The id, before the call, of the layer that has id k after it; -1 for a  *)
(* selected layer that is not in the list.                                 *)
OriginOf(k) == IF k \in 1..Len(last'.origin) THEN last'.origin[k] ELSE -1

IsNear(p, q) == distanceTo(p, q) < MERGE_THRESHOLD

(* The list without its k-th element *)
Without(s, k) == [i \in 1..(Len(s) - 1) |-> IF i < k THEN s[i] ELSE s[i + 1]]

BaseNames ==
    {<<>>, <<"R">>, <<"R", " ", "1">>, <<"R", " ", "1", "2">>, <<" ", "1">>,
     <<"R", " ", "1", "S">>, <<"T", " ", "5", " ", "n">>, <<"R", " ">>}

----------------------------------------------------------------------------
(* C1: the names of the routes of the collection are pairwise distinct in  *)
(* every reachable state (addRoute with arbitrary names, interleaved with  *)
(* the other operations).  addRoute inserts the name it is given, so two   *)
(* addRoute calls with one name refute it.                                 *)
C1_NamesPairwiseDistinct ==
    \A i, j \in 1..Len(routes) :
        i # j => layers[routes[i]].name # layers[routes[j]].name

(* C2: after every operation at most one layer of the collection is in     *)
(* Edit state, and when another layer becomes the selection the layer that *)
(* was selected before, if it is still in the collection, is ReadOnly.     *)
EditLayers == {k \in 1..Len(routes) : layers[routes[k]].state = "Edit"}

C2_AtMostOneEditAndDemotion ==
    [][/\ Cardinality(EditLayers') <= 1
       /\ \A k \in 1..Len(routes') :
             (/\ selectedRoute # NULL
              /\ selectedRoute' # NULL
              /\ OriginOf(selectedRoute') # selectedRoute
              /\ OriginOf(k) = selectedRoute)
             => layers'[routes'[k]].state = "ReadOnly"]_vars

C2_Witness ==
    /\ last.op = "addRoute"
    /\ Len(routes) = 2
    /\ selectedRoute = 2
    /\ layers[1].state = "ReadOnly"
    /\ layers[2].state = "Edit"

(* C3: selectedRoute is null or an element of the routes list. *)
C3_SelectedInCollection ==
    selectedRoute = NULL \/ selectedRoute \in Range(routes)

C3_Witness ==
    /\ last.op = "removeRoute"
    /\ last.routeChanged = 1
    /\ selectedRoute = NULL
    /\ routes # <<>>

(* C4: removeRoute(n), with n the name of the selected route, leaves the   *)
(* selection null and no route named n.  It fails when an earlier route    *)
(* has the same name (C1): that route is the one removed.                  *)
C4_RemoveSelectedByName ==
    [][(/\ last'.op = "removeRoute"
        /\ selectedRoute # NULL
        /\ layers[selectedRoute].name = last'.name)
       => /\ selectedRoute' = NULL
          /\ \A k \in 1..Len(routes') : layers'[routes'[k]].name # last'.name]_vars

(* C5: in every reachable state and for every base, createRouteName(base)  *)
(* is available: not empty and the name of no route.                       *)
C5_CreatedNameAvailable ==
    \A base \in BaseNames \cup {NoName} :
        isNameAvailable(Current, createRouteName(Current, base))

C5_Witness ==
    /\ <<"R", " ", "1">> \in Names
    /\ createRouteName(Current, <<"R", " ", "1">>) = <<"R", " ", "2">>
    /\ createRouteName(Current, <<>>) = <<" ", "1">>

(* C6: createRouteName(base) is the stripped base, a space and the least   *)
(* k >= 1 for which that name is not in use; with "R 1" and "R 2" in use   *)
(* (and "R 3" not) createRouteName("R") is "R 3", with "R 2" in use and    *)
(* "R 1" not it is "R 1".                                                  *)
C6_SmallestFreeIndex ==
    /\ \A base \in BaseNames :
          \E k \in 1..(Len(routes) + 1) :
              /\ createRouteName(Current, base)
                    = StripNumber(base) \o <<" ">> \o ToDecimal(k)
              /\ StripNumber(base) \o <<" ">> \o ToDecimal(k) \notin Names
              /\ \A j \in 1..(k - 1) :
                    StripNumber(base) \o <<" ">> \o ToDecimal(j) \in Names
    /\ ({<<"R", " ", "1">>, <<"R", " ", "2">>} \subseteq Names
          /\ <<"R", " ", "3">> \notin Names)
          => createRouteName(Current, <<"R">>) = <<"R", " ", "3">>
    /\ (<<"R", " ", "2">> \in Names /\ <<"R", " ", "1">> \notin Names)
          => createRouteName(Current, <<"R">>) = <<"R", " ", "1">>

C6_Witness ==
    /\ {<<"R", " ", "1">>, <<"R", " ", "2">>} \subseteq Names
    /\ createRouteName(Current, <<"R">>) = <<"R", " ", "3">>

C6_WitnessGap ==
    /\ <<"R", " ", "2">> \in Names
    /\ <<"R", " ", "1">> \notin Names
    /\ createRouteName(Current, <<"R">>) = <<"R", " ", "1">>

(* C7: a completed merge removes exactly the absorbed layer, leaves no     *)
(* route with its name, and keeps the selection.  It fails when an earlier *)
(* route has the absorbed route's name (C1): removeRoute removes that one. *)
C7_MergeRemovesAbsorbed ==
    [][CompletedStep("mergeSelectedRouteToClosest")
       => /\ \A k \in 1..Len(routes') :
                layers'[routes'[k]].name # last'.absorbed.name
          /\ last'.origin = Without(routes, last'.closest)
          /\ OriginOf(selectedRoute') = selectedRoute]_vars

(* C8: after a completed merge the selected route's markers are its        *)
(* markers from before followed by the absorbed route's.                   *)
C8_MergeConcatenatesMarkers ==
    [][CompletedStep("mergeSelectedRouteToClosest")
       => /\ selectedRoute' # NULL
          /\ layers'[selectedRoute'].markers
                = layers[selectedRoute].markers \o layers[last'.closest].markers]_vars

C8_Witness ==
    /\ Completed("mergeSelectedRouteToClosest")
    /\ last.absorbed.markers # <<>>
    /\ Len(layers[selectedRoute].markers) > Len(last.absorbed.markers)

(* C9: collection [A, B], A = [s1] selected, B = [s2], the end of A near   *)
(* the start of B and not near its end: mergeSelectedRouteToClosest(false) *)
(* completes with collection [A], A's segments s1 (trimmed) and s2.  The   *)
(* code removes B's only segment and then reads B's first segment.         *)
C9_MergeSingleSegmentRoutes ==
    [][(/\ last'.op = "mergeSelectedRouteToClosest"
        /\ last'.flag = FALSE
        /\ Len(routes) = 2
        /\ selectedRoute = 1
        /\ layers[1].name # layers[2].name
        /\ Len(layers[1].segments) = 1
        /\ Len(layers[2].segments) = 1
        /\ IsNear(getLastLatLng(layers[1]), getFirstLatLng(layers[2]))
        /\ ~IsNear(getLastLatLng(layers[1]), getLastLatLng(layers[2])))
       => /\ ~last'.error
          /\ Len(routes') = 1
          /\ layers'[1].name = layers[1].name
          /\ Len(layers'[1].segments) = 2
          /\ layers'[1].segments[2].routingType = layers[2].segments[1].routingType
          /\ Last(layers'[1].segments[2].latlngs) = getLastLatLng(layers[2])]_vars

(* C10: a completed split at index i of a route of N segments (i < N-1)    *)
(* leaves the original with segments 0..i, creates one route of N-i        *)
(* segments, so N+1 in all, and the original ends where segment i ended.   *)
C10_SplitCounts ==
    [][CompletedStep("splitSelectedRouteAt")
       => LET i == last'.index
              before == layers[selectedRoute].segments
              N == Len(before)
              new == Len(routes')
          IN  /\ i < N - 1
              /\ Len(routes') = Len(routes) + 1
              /\ \A k \in 1..Len(routes) : OriginOf(k) = k
              /\ layers'[selectedRoute].segments = SubSeq(before, 1, i + 1)
              /\ Len(layers'[new].segments) = N - i
              /\ Len(layers'[selectedRoute].segments)
                    + Len(layers'[new].segments) = N + 1
              /\ getLastLatLng(layers'[selectedRoute])
                    = Last(before[i + 1].latlngs)]_vars

C10_Witness ==
    /\ Completed("splitSelectedRouteAt")
    /\ last.index = 0
    /\ Len(routes) = 2
    /\ Len(layers[1].segments) = 1
    /\ Len(layers[2].segments) = 3

(* C11: for a selected route with segments, getClosestRoute(isFirst)       *)
(* returns null exactly when no other route with a segment has its first   *)
(* or its last point nearer than MERGE_THRESHOLD to the selected route's   *)
(* first point (isFirst) or last point; a route it returns is such a       *)
(* route: not the selected one, with a segment, with a near endpoint.      *)
Candidates(isFirst) ==
    LET p == IF isFirst THEN getFirstLatLng(layers[selectedRoute])
             ELSE getLastLatLng(layers[selectedRoute])
    IN  {id \in Range(routes) :
            /\ id # selectedRoute
            /\ layers[id].segments # <<>>
            /\ \/ IsNear(getFirstLatLng(layers[id]), p)
               \/ IsNear(getLastLatLng(layers[id]), p)}

C11_ClosestRoute ==
    \A isFirst \in BOOLEAN :
        (selectedRoute # NULL /\ layers[selectedRoute].segments # <<>>)
        => LET found == getClosestRoute(Current, isFirst)
           IN  /\ ~found.threw
               /\ found.route = NULL <=> Candidates(isFirst) = {}
               /\ found.route # NULL => found.route \in Candidates(isFirst)

C11_Witness ==
    /\ selectedRoute # NULL
    /\ Len(routes) = 3
    /\ \A k \in 1..3 : layers[k].segments # <<>>
    /\ getClosestRoute(Current, TRUE).route \notin {NULL, selectedRoute}
    /\ getClosestRoute(Current, FALSE).route = NULL

(* C12: setData with exactly one route, without segments, on a collection  *)
(* that is not empty creates no route: the list is the same list, the      *)
(* payload's markers (with the marker types setData gave them) are         *)
(* appended in order to the markers of the selected route, or of the first *)
(* route when none is selected, and the other routes' markers and all      *)
(* segments stay as they were.                                             *)
MarkersOnlyStep ==
    /\ last'.op = "setData"
    /\ Len(last'.payload) = 1
    /\ last'.payload[1].segments = <<>>
    /\ routes # <<>>

C12_MarkersOnlyImport ==
    [][MarkersOnlyStep
       => LET target == IF selectedRoute = NULL THEN routes[1] ELSE selectedRoute
              imported == NormalizeRoute(last'.payload[1]).markers
          IN  /\ ~last'.error
              /\ last'.origin = routes
              /\ routes' = routes
              /\ layers'[target].markers = layers[target].markers \o imported
              /\ \A id \in Range(routes) :
                    /\ layers'[id].segments = layers[id].segments
                    /\ id # target => layers'[id].markers = layers[id].markers]_vars

C12_Witness ==
    /\ last.op = "setData"
    /\ Len(last.payload) = 1
    /\ last.payload[1].segments = <<>>
    /\ last.payload[1].markers = <<M2>>
    /\ Len(routes) = 2
    /\ selectedRoute # NULL
    /\ layers[selectedRoute].markers = <<M1, NormalizeMarker(M2)>>

(* C13: after addRoute(route) the list is the list from before with one    *)
(* new layer, made from route, appended at its end; the new layer is the   *)
(* selection and is in Edit state, and the layer that was selected before, *)
(* if any, is in ReadOnly state.                                           *)
C13_AddRouteAppendsAndSelects ==
    [][last'.op = "addRoute"
       => LET new == Len(routes')
          IN  /\ ~last'.error
              /\ new = Len(routes) + 1
              /\ SubSeq(last'.origin, 1, Len(routes)) = routes
              /\ last'.origin[new] \notin DOMAIN layers
              /\ layers'[new].name = last'.payload[1].name
              /\ layers'[new].segments = last'.payload[1].segments
              /\ selectedRoute' = new
              /\ layers'[new].state = "Edit"
              /\ selectedRoute # NULL
                    => layers'[selectedRoute].state = "ReadOnly"]_vars

C13_Witness ==
    /\ last.op = "addRoute"
    /\ Len(routes) = 3
    /\ selectedRoute = 3
    /\ layers[3].state = "Edit"
    /\ layers[2].state = "ReadOnly"
    /\ layers[1].state = "ReadOnly"
    /\ last.routeChanged = 1

(* C14: changeRouteState(layer) toggles the selection.  When layer is the  *)
(* selected route and visible, afterwards the selection is null and the    *)
(* layer is off the map; in every other case the selection afterwards is   *)
(* layer, and a layer that was invisible is on the map.  A second call on  *)
(* the layer that the call before it selected deselects it.                *)
SecondCallOn(l) ==
    /\ last.op = "changeRouteState"
    /\ last.layer = l
    /\ selectedRoute = l

C14_ChangeRouteStateToggles ==
    [][last'.op = "changeRouteState"
       => LET l == last'.layer
          IN  /\ ~last'.error
              /\ last'.origin = routes
              /\ routes' = routes
              /\ IF l = selectedRoute /\ layers[l].isVisible
                 THEN /\ selectedRoute' = NULL
                      /\ l \notin onMap'
                      /\ ~layers'[l].isVisible
                 ELSE /\ selectedRoute' = l
                      /\ ~layers[l].isVisible
                            => (l \in onMap' /\ layers'[l].isVisible)
              /\ SecondCallOn(l)
                    => (selectedRoute' = NULL /\ l \notin onMap')]_vars

C14_Witness ==
    /\ last.op = "changeRouteState"
    /\ Len(routes) = 2
    /\ selectedRoute = 1
    /\ last.layer = 1
    /\ onMap = {1}
    /\ ~layers[2].isVisible

(* C15: removeRoute(name) with a name that no route of the collection has  *)
(* does nothing: no error, the list, the selection, every layer (its       *)
(* lifecycle state included) and the map stay as they were, and no         *)
(* notification is emitted.                                                *)
C15_RemoveUnknownNameNoOp ==
    [][(last'.op = "removeRoute" /\ last'.name \notin Names)
       => /\ ~last'.error
          /\ last'.origin = routes
          /\ routes' = routes
          /\ selectedRoute' = selectedRoute
          /\ layers' = layers
          /\ onMap' = onMap
          /\ last'.routeChanged = 0
          /\ last'.dataChanged = {}]_vars

C15_Witness ==
    /\ last.op = "removeRoute"
    /\ last.name = <<"X">>
    /\ last.name \notin Names
    /\ last.routeChanged = 0
    /\ Len(routes) = 2
    /\ selectedRoute = 2
    /\ layers[2].state = "Edit"

(* C16: every step in which selectedRoute changes value (to or from null,  *)
(* or to another layer) emits a routeChanged notification.  The markers-   *)
(* only import assigns routes[0] to a null selectedRoute without one.      *)
SelectionChanged ==
    \/ (selectedRoute = NULL) # (selectedRoute' = NULL)
    \/ selectedRoute' # NULL /\ OriginOf(selectedRoute') # selectedRoute

C16_SelectionChangeNotifies ==
    [][SelectionChanged => last'.routeChanged >= 1]_vars

(* C17: a setData that takes the route loop (a payload that is not empty   *)
(* and not the markers-only case) on a collection of pairwise distinct     *)
(* names appends one route per payload route, each under a name that is    *)
(* not empty, not undefined and the name of no route before it in the      *)
(* list; a payload name that was available is kept and the names are       *)
(* pairwise distinct afterwards.                                           *)
RouteLoopStep ==
    /\ last'.op = "setData"
    /\ last'.payload # <<>>
    /\ ~MarkersOnlyStep

C17_ImportedNamesAvailable ==
    [][(RouteLoopStep /\ C1_NamesPairwiseDistinct)
       => /\ ~last'.error
          /\ Len(routes') = Len(routes) + Len(last'.payload)
          /\ SubSeq(last'.origin, 1, Len(routes)) = routes
          /\ \A k \in (Len(routes) + 1)..Len(routes') :
                /\ layers'[k].name \notin {<<>>, NoName}
                /\ \A j \in 1..(k - 1) : layers'[j].name # layers'[k].name
          /\ isNameAvailable(Current, last'.payload[1].name)
                => layers'[Len(routes) + 1].name = last'.payload[1].name
          /\ C1_NamesPairwiseDistinct']_vars

C17_Witness ==
    /\ last.op = "setData"
    /\ Len(last.payload) = 2
    /\ last.payload[1].name = NoName
    /\ last.payload[2].name = NoName
    /\ Len(routes) = 2
    /\ layers[1].name = <<"R", " ", "1">>
    /\ layers[2].name = <<"R", " ", "2">>

C17_WitnessRename ==
    /\ last.op = "setData"
    /\ Len(last.payload) = 1
    /\ last.payload[1].name = <<>>
    /\ Len(routes) = 2
    /\ layers[1].name = <<"R", " ", "1">>
    /\ layers[2].name = <<" ", "1">>

(* C18: after a completed splitSelectedRouteAt the original, shortened      *)
(* route is in Edit state and its raiseDataChanged has been called, and a  *)
(* new route is in the collection under the original's name followed by    *)
(* the split suffix.  setData selects the new route, so the code's last    *)
(* two calls act on the new route and the original stays ReadOnly.         *)
C18_SplitRestoresOriginal ==
    [][CompletedStep("splitSelectedRouteAt")
       => /\ layers'[selectedRoute].state = "Edit"
          /\ selectedRoute \in last'.dataChanged
          /\ \E k \in 1..Len(routes') :
                /\ OriginOf(k) \notin DOMAIN layers
                /\ layers'[k].name = layers[selectedRoute].name \o SplitSuffix]_vars

(* C19: a layer of the collection goes into ReadOnly state only in a step  *)
(* in which another layer becomes the selection, and into Edit state only  *)
(* when it is the selection after the step.  selectRoute(null), which      *)
(* removeRoute and changeRouteState call to deselect, sets the selected    *)
(* layer to ReadOnly while no layer becomes the selection.                 *)
EntersState(k, state) ==
    /\ layers'[k].state = state
    /\ OriginOf(k) \in DOMAIN layers => layers[OriginOf(k)].state # state

AnotherBecomesSelection(k) ==
    /\ selectedRoute' # NULL
    /\ selectedRoute' # k
    /\ OriginOf(selectedRoute') # selectedRoute

C19_LifecycleTransitions ==
    [][\A k \in 1..Len(routes') :
          /\ (OriginOf(k) \in DOMAIN layers /\ EntersState(k, "ReadOnly"))
                => AnotherBecomesSelection(k)
          /\ EntersState(k, "Edit") => selectedRoute' = k]_vars

(* C20: no operation calls getLastLatLng on, or reads the first segment    *)
(* of, an empty list of segments: the call that led to the state did not,  *)
(* and getClosestRoute called in the state, with either argument, would    *)
(* not.  None of the reads is guarded: getClosestRoute reads the selected  *)
(* route's first or last point whether or not it has a segment.            *)
C20_NoReadOfEmptySegments ==
    /\ ~last.emptyRead
    /\ \A isFirst \in BOOLEAN :
          selectedRoute # NULL => ~getClosestRoute(Current, isFirst).emptyRead

(* C21: when several routes are candidates, getClosestRoute returns the    *)
(* one that comes first in the list, whether or not another candidate is   *)
(* nearer.                                                                 *)
Gap(id, isFirst) ==
    LET p == IF isFirst THEN getFirstLatLng(layers[selectedRoute])
             ELSE getLastLatLng(layers[selectedRoute])
        a == distanceTo(getFirstLatLng(layers[id]), p)
        b == distanceTo(getLastLatLng(layers[id]), p)
    IN  IF a <= b THEN a ELSE b

MergeWithoutCandidate ==
    /\ last'.op = "mergeSelectedRouteToClosest"
    /\ ~getClosestRoute(Current, last'.flag).threw
    /\ getClosestRoute(Current, last'.flag).route = NULL

C22_MergeWithoutCandidateFails ==
    [][MergeWithoutCandidate
       => /\ last'.error
          /\ last'.origin = routes
          /\ routes' = routes
          /\ selectedRoute' = selectedRoute
          /\ \A id \in Range(routes) :
                /\ layers'[id].segments = layers[id].segments
                /\ layers'[id].markers = layers[id].markers]_vars

C22_Witness ==
    /\ last.op = "mergeSelectedRouteToClosest"
    /\ last.error
    /\ ~last.emptyRead
    /\ last.closest = NULL
    /\ Len(routes) = 2
    /\ selectedRoute # NULL
    /\ layers[selectedRoute].state = "Hidden"
    /\ \A k \in 1..2 : layers[k].segments # <<>>

(* C23: mergeSelectedRouteToClosest(true) on a selected route of segments  *)
(* t0, t1, ..., tn (n >= 1) with a closest route whose segments, once      *)
(* oriented, are c0, ..., cm: it completes, and the selected route's       *)
(* segments are then c0, ..., cm, t1', t2, ..., tn, with t1' the segment   *)
(* t1 with the closest route's last point put before its points:           *)
(* (m + 1) + n segments.  With a name in use twice (C1) removeRoute can    *)
(* remove the selected route and the merge aborts.                         *)
Oriented(closest, isFirst) ==
    LET p == IF isFirst THEN getFirstLatLng(layers[selectedRoute])
             ELSE getLastLatLng(layers[selectedRoute])
        q == IF isFirst THEN getFirstLatLng(layers[closest])
             ELSE getLastLatLng(layers[closest])
    IN  IF IsNear(q, p) THEN reverse(layers[closest]) ELSE layers[closest]

FrontMergeStep ==
    /\ last'.op = "mergeSelectedRouteToClosest"
    /\ last'.flag
    /\ ~getClosestRoute(Current, TRUE).threw
    /\ getClosestRoute(Current, TRUE).route # NULL
    /\ Len(layers[selectedRoute].segments) >= 2

FrontMergeResult ==
    LET t == layers[selectedRoute].segments
        c == Oriented(getClosestRoute(Current, TRUE).route, TRUE).segments
        t1 == [t[2] EXCEPT !.latlngs = <<Last(Last(c).latlngs)>> \o @]
    IN  /\ ~last'.error
        /\ selectedRoute' # NULL
        /\ OriginOf(selectedRoute') = selectedRoute
        /\ layers'[selectedRoute'].segments = c \o <<t1>> \o SubSeq(t, 3, Len(t))
        /\ Len(layers'[selectedRoute'].segments) = Len(c) + (Len(t) - 1)

C23_FrontMergeSegments ==
    [][FrontMergeStep => FrontMergeResult]_vars

(* C24: a merge that gets to orient the closest route reverses it exactly  *)
(* when its same-side end point is near: in a front merge its first point  *)
(* near the selected route's first point, in a back merge its last point   *)
(* near the selected route's last point.  Once oriented, the closest       *)
(* route's last point (front merge) or first point (back merge) is near    *)
(* the end point of the selected route that the merge extends.  A merge    *)
(* that aborts before line 196 (no candidate, or no selected route left)   *)
(* orients nothing.                                                        *)
C24_ReversedWhenSameSideNear ==
    [][(last'.op = "mergeSelectedRouteToClosest" /\ last'.orientation.made)
       => LET isFirst == last'.flag
              closest == layers[last'.closest]
              p == IF isFirst THEN getFirstLatLng(layers[selectedRoute])
                   ELSE getLastLatLng(layers[selectedRoute])
              sameSide == IF isFirst THEN getFirstLatLng(closest)
                          ELSE getLastLatLng(closest)
              abutting == IF isFirst THEN last'.orientation.last
                          ELSE last'.orientation.first
          IN  /\ last'.orientation.reversed <=> IsNear(sameSide, p)
              /\ IsNear(abutting, p)]_vars

C24_Witness ==
    /\ Completed("mergeSelectedRouteToClosest")
    /\ last.flag
    /\ last.orientation.made
    /\ ~last.orientation.reversed

C24_WitnessFrontReversed ==
    /\ Completed("mergeSelectedRouteToClosest")
    /\ last.flag
    /\ last.orientation.reversed

C24_WitnessBackReversed ==
    /\ Completed("mergeSelectedRouteToClosest")
    /\ ~last.flag
    /\ last.orientation.reversed

C24_WitnessBackKept ==
    /\ Completed("mergeSelectedRouteToClosest")
    /\ ~last.flag
    /\ last.orientation.made
    /\ ~last.orientation.reversed

(* C25: the route that a completed splitSelectedRouteAt creates starts     *)
(* with a bridging segment: its points are the original route's end point  *)
(* after the truncation, twice, its routePoint is that point and its       *)
(* routingType that of the first segment moved; the segments moved follow  *)
(* it in their order.                                                      *)
C25_SplitBridgeSegment ==
    [][CompletedStep("splitSelectedRouteAt")
       => LET i == last'.index
              before == layers[selectedRoute].segments
              new == Len(routes')
              p == getLastLatLng(layers'[selectedRoute])
          IN  /\ OriginOf(new) \notin DOMAIN layers
              /\ p = Last(before[i + 1].latlngs)
              /\ layers'[new].segments[1]
                    = [latlngs |-> <<p, p>>, routePoint |-> p,
                       routingType |-> before[i + 2].routingType]
              /\ Tail(layers'[new].segments) = SubSeq(before, i + 2, Len(before))]_vars

C25_Witness ==
    /\ Completed("splitSelectedRouteAt")
    /\ Len(routes) = 2
    /\ selectedRoute = 2
    /\ layers[2].segments[1] = [latlngs |-> <<20, 20>>, routePoint |-> 20,
                                 routingType |-> "Bike"]
    /\ Len(layers[2].segments) = 3
    /\ layers[2].segments[3].routingType = "Hike"

(* C26: createRouteName(base) takes a space and a number off base only     *)
(* when they are the end of base; a base in which characters follow the    *)
(* number (as in "T 5 n") is the stem as it is, and the result is the stem *)
(* followed by a space and an index.  The pattern of the code is not       *)
(* anchored at the end of the name, so the number inside is removed.       *)
TrailingNumberAt(s) ==
    {p \in 1..(Len(s) - 1) :
        s[p] = " " /\ \A j \in (p + 1)..Len(s) : IsDigit(s[j])}

Stem(s) ==
    IF TrailingNumberAt(s) = {} THEN s
    ELSE SubSeq(s, 1, SetMax(TrailingNumberAt(s)) - 1)

C26_OnlyTrailingNumberStripped ==
    \A base \in BaseNames :
        \E k \in 1..(Len(routes) + 1) :
            createRouteName(Current, base) = Stem(base) \o <<" ">> \o ToDecimal(k)

(* C27: a setData that takes the route loop with a payload of k routes     *)
(* leaves the list from before followed by k new layers, the j-th made     *)
(* from the j-th route of the payload; the selection is the last of them   *)
(* and the layer selected before, if any, is in ReadOnly state.  setData    *)
(* with an empty payload changes nothing.                                  *)
C27_ImportAppendsInOrder ==
    [][/\ RouteLoopStep
          => LET n == Len(routes)
                 k == Len(last'.payload)
             IN  /\ ~last'.error
                 /\ Len(routes') = n + k
                 /\ SubSeq(last'.origin, 1, n) = routes
                 /\ \A j \in 1..k :
                       /\ OriginOf(n + j) \notin DOMAIN layers
                       /\ layers'[n + j].segments = last'.payload[j].segments
                       /\ layers'[n + j].markers
                             = NormalizeRoute(last'.payload[j]).markers
                       /\ last'.payload[j].name
                             \notin (Names \cup {NoName, <<>>}
                                       \cup {last'.payload[i].name : i \in 1..(j - 1)})
                             => layers'[n + j].name = last'.payload[j].name
                 /\ selectedRoute' = n + k
                 /\ selectedRoute # NULL
                       => layers'[selectedRoute].state = "ReadOnly"
       /\ (last'.op = "setData" /\ last'.payload = <<>>)
          => /\ ~last'.error
             /\ last'.origin = routes
             /\ routes' = routes
             /\ selectedRoute' = selectedRoute
             /\ layers' = layers
             /\ onMap' = onMap
             /\ last'.routeChanged = 0]_vars

C27_Witness ==
    /\ last.op = "setData"
    /\ Len(last.payload) = 2
    /\ last.payload[1].name = <<"R">>
    /\ last.payload[2].name = NoName
    /\ Len(routes) = 2
    /\ selectedRoute = 2
    /\ layers[1].name = <<"R">>
    /\ layers[2].name = <<"R", " ", "1">>

C27_WitnessDemotion ==
    /\ last.op = "setData"
    /\ Len(last.payload) = 1
    /\ last.routeChanged = 1
    /\ Len(routes) = 2
    /\ selectedRoute = 2
    /\ layers[1].state = "ReadOnly"

(* A step that handles the successful response to the latest request of    *)
(* its context while the context still holds the requested term.           *)
LatestResponseStep ==
    /\ response'.id # 0
    /\ response'.ok
    /\ response'.id = lastRequest[response'.context]
    /\ Context(response'.context).searchTerm = response'.searchTerm

ContextAfter(c) == IF c = "from" THEN fromContext' ELSE toContext'

(* C28: the successful response to the most recent request of a context,   *)
(* arriving while the context's searchTerm still equals the requested      *)
(* term, becomes the context's searchResults; and searchResults are never  *)
(* set from a response whose requested term differs from the context's     *)
(* current searchTerm.                                                     *)
C28_LatestResponseShown ==
    [][/\ LatestResponseStep =>
            ContextAfter(response'.context).searchResults = response'.results
       /\ (response'.id # 0 /\ response'.applied) =>
            /\ response'.searchTerm = Context(response'.context).searchTerm
            /\ response'.searchTerm = ContextAfter(response'.context).searchTerm
      ]_vars

(* The response to the latest request of a context, with the term          *)
(* unchanged, was dropped: the results of the context are not the          *)
(* response's.                                                             *)
C28_LatestResponseDropped ==
    /\ response.id # 0
    /\ response.ok
    /\ ~response.applied
    /\ response.id = lastRequest[response.context]
    /\ Context(response.context).searchTerm = response.searchTerm
    /\ Context(response.context).searchResults # response.results

============================================================================
